---- MODULE Spec2Model ----
(***************************************************************************)
(* Model of the Pomodoro session controller of                             *)
(* src/components/pomodoro-timer.tsx (PomodoroComponent).                  *)
(*                                                                         *)
(* One action per event the component reacts to: the interval callback     *)
(* (a tick), the four buttons' handlers, the duration +/- buttons and the  *)
(* user-name input.  An action is the whole of React's reaction to the     *)
(* event: the handler runs against the values of the committed render,     *)
(* its state updates are applied, and the render's effect (cleanup of the  *)
(* previous interval, arming of a new one, end-of-session bookkeeping)     *)
(* runs before the next event is handled.                                  *)
(***************************************************************************)
EXTENDS Integers, Sequences, FiniteSets, TLC

\* ---- bounds of the model ------------------------------------------------
MaxMinutes == 2      \* durations range over 60 .. 60 * MaxMinutes seconds
MaxNow == 2          \* Date.now() returns 1 .. MaxNow
MaxLog == 2          \* the component is followed until the stored log is this long
MaxEdge == 1         \* the user acts within this many seconds of a countdown's
                     \* start or end (or while no countdown is under way)
MaxShownMinutes == 100  \* formatTime is applied to 0 .. 60 * MaxShownMinutes seconds

\* ---- program constants --------------------------------------------------
MinDuration == 60
DurationStep == 60

\* null (sessionStart, timerRef.current, a missing localStorage item)
Null == -1

UserNames == {"", "ana"}
SessionTypes == {"work", "break"}
Durations == {d \in MinDuration..(60 * MaxMinutes) : d % 60 = 0}

VARIABLES
  state,          \* PomodoroState (useState)
  sessionStart,   \* number | null (useState)
  timerRef,       \* timerRef.current: id of the last interval armed, or Null
  timers,         \* ids of the intervals that are armed in the browser
  storage,        \* localStorage item "pomodoitSessions"
  now,            \* what Date.now() returned when it was last called
  error,          \* what the last event raised: none, alert, exception, effectException
  lastOp,         \* the last event handled
  ticks,          \* ticks delivered since the open session was opened with
                  \* nothing else handled in between; Null otherwise
  display         \* the characters of the time shown, {formatTime(state.currentTime)}

vars == <<state, sessionStart, timerRef, timers, storage, now, error, lastOp, ticks, display>>

\* ---- JavaScript values --------------------------------------------------
\* !x for x : number | null
Falsy(x) == x = Null \/ x = 0

Max(a, b) == IF a >= b THEN a ELSE b

\* ---- localStorage item and JSON -----------------------------------------
\* The item is null (absent) or a text.  A text is the empty string, the
\* JSON text of an array of session logs, or some other text.
NoItem == [kind |-> "null", body |-> <<>>]
EmptyText == [kind |-> "empty", body |-> <<>>]
GarbageText == [kind |-> "garbage", body |-> <<>>]     \* not JSON at all
ObjectText == [kind |-> "object", body |-> <<>>]       \* JSON, but not an array

\* if (storedData): null and "" are falsy
Truthy(item) == item.kind \notin {"null", "empty"}

\* one SessionLog as it is written into the JSON text, key by key
EncodeSessionLog(s) ==
  <<s.userName, s.sessionType, s.startTime, s.endTime, s.interrupted>>

DecodeSessionLog(t) ==
  [userName |-> t[1], sessionType |-> t[2], startTime |-> t[3],
   endTime |-> t[4], interrupted |-> t[5]]

JSONstringify(logs) ==
  [kind |-> "array", body |-> [i \in 1..Len(logs) |-> EncodeSessionLog(logs[i])]]

\* defined for the text of an array only; see saveSessionToLocalStorage
JSONparse(item) == [i \in 1..Len(item.body) |-> DecodeSessionLog(item.body[i])]

\* The session log a reader of the store sees
StoredLogs(item) == IF item.kind = "array" THEN JSONparse(item) ELSE <<>>

\* The configured duration of a session type
DurationOf(s, type) == IF type = "work" THEN s.workDuration ELSE s.breakDuration

OtherSession(type) == IF type = "work" THEN "break" ELSE "work"

\* ---- the component, as functions of its world ---------------------------
\* A world w is the record of everything a handler reads or writes.
World ==
  [state |-> state, sessionStart |-> sessionStart, timerRef |-> timerRef,
   timers |-> timers, storage |-> storage, now |-> now, error |-> "none"]

clearInterval(w, id) == [w EXCEPT !.timers = @ \ {id}]

\* timerRef.current = setInterval(...): an id no armed interval has
setInterval(w) ==
  LET id == CHOOSE i \in 1..(Cardinality(w.timers) + 1) :
              /\ i \notin w.timers
              /\ \A j \in 1..(i - 1) : j \in w.timers
  IN  [w EXCEPT !.timers = @ \cup {id}, !.timerRef = id]

\* saveSessionToLocalStorage writing the new entry alone
saveSessionToLocalStorage_overwrite(w, session) ==
  IF Truthy(w.storage) /\ w.storage.kind # "array"
    THEN [w EXCEPT !.error = "exception"]
    ELSE [w EXCEPT !.storage = JSONstringify(<<session>>)]

saveSessionToLocalStorage(w, session) ==
  IF ~Truthy(w.storage)
    THEN [w EXCEPT !.storage = JSONstringify(<<session>>)]
    ELSE IF w.storage.kind = "array"
      THEN [w EXCEPT !.storage = JSONstringify(Append(JSONparse(w.storage), session))]
      \* JSON.parse throws a SyntaxError, or push is not a function
      ELSE [w EXCEPT !.error = "exception"]

\* Date.now() returns t
DateNow(w, t) == [w EXCEPT !.now = t]

\* handleEndSession with startTime and endTime taken from each other's source
handleEndSession_swapsTimes(w, wasInterrupted, t) ==
  IF Falsy(w.sessionStart) THEN w
  ELSE LET saved == saveSessionToLocalStorage(
                      DateNow(w, t),
                      [userName |-> w.state.userName,
                       sessionType |-> w.state.currentSession,
                       startTime |-> t, endTime |-> w.sessionStart,
                       interrupted |-> wasInterrupted])
       IN  IF saved.error = "exception" THEN saved
           ELSE [saved EXCEPT !.sessionStart = Null]

\* handleEndSession without setSessionStart(null)
handleEndSession_keepsStart(w, wasInterrupted, t) ==
  IF Falsy(w.sessionStart) THEN w
  ELSE saveSessionToLocalStorage(
         DateNow(w, t),
         [userName |-> w.state.userName, sessionType |-> w.state.currentSession,
          startTime |-> w.sessionStart, endTime |-> t, interrupted |-> wasInterrupted])

\* t is what Date.now() returns
handleEndSession(w, wasInterrupted, t) ==
  IF Falsy(w.sessionStart) THEN w
  ELSE LET newSessionLog == [userName |-> w.state.userName,
                             sessionType |-> w.state.currentSession,
                             startTime |-> w.sessionStart,
                             endTime |-> t,
                             interrupted |-> wasInterrupted]
           saved == saveSessionToLocalStorage(DateNow(w, t), newSessionLog)
       IN  IF saved.error = "exception" THEN saved
           ELSE [saved EXCEPT !.sessionStart = Null]

startNewSession(w, t) == [DateNow(w, t) EXCEPT !.sessionStart = t]

\* handleSessionSwitch loading the duration as it was before the edit that
\* was handled last
handleSessionSwitch_staleDuration(w, t) ==
  LET isWorkSession == w.state.currentSession = "work"
      next == IF isWorkSession THEN "break" ELSE "work"
      edited == lastOp.op = "durationChange" /\ lastOp.arg = next /\ lastOp.increment
  IN  startNewSession(
        [w EXCEPT !.state.currentSession = next,
                  !.state.currentTime = IF edited THEN DurationOf(w.state, next) - DurationStep
                                        ELSE DurationOf(w.state, next)],
        t)

\* handleSessionSwitch reloading a duration without changing the session type
handleSessionSwitch_keepsType(w, t) ==
  LET isWorkSession == w.state.currentSession = "work"
  IN  startNewSession(
        [w EXCEPT !.state.currentTime = IF isWorkSession THEN w.state.workDuration
                                        ELSE w.state.breakDuration],
        t)

\* handleSessionSwitch reloading the duration of the session that ended
handleSessionSwitch_sameDuration(w, t) ==
  LET isWorkSession == w.state.currentSession = "work"
  IN  startNewSession(
        [w EXCEPT !.state.currentSession = IF isWorkSession THEN "break" ELSE "work",
                  !.state.currentTime = IF isWorkSession THEN w.state.workDuration
                                        ELSE w.state.breakDuration],
        t)

handleSessionSwitch(w, t) ==
  LET isWorkSession == w.state.currentSession = "work"
  IN  startNewSession(
        [w EXCEPT !.state.currentSession = IF isWorkSession THEN "break" ELSE "work",
                  !.state.currentTime = IF isWorkSession THEN w.state.breakDuration
                                        ELSE w.state.workDuration],
        t)

RECURSIVE Render(_, _, _, _)

\* The effect arming the interval whenever the timer is running
Render_armsAtZero(prev, w, t1, t2) ==
  IF prev.timerStatus = w.state.timerStatus /\ prev.currentTime = w.state.currentTime
    THEN w
    ELSE LET c == clearInterval(w, w.timerRef)
         IN  IF c.state.timerStatus = "running" THEN setInterval(c) ELSE c

\* The effect without its end-of-session branch
Render_noSwitch(prev, w, t1, t2) ==
  IF prev.timerStatus = w.state.timerStatus /\ prev.currentTime = w.state.currentTime
    THEN w
    ELSE LET c == clearInterval(w, w.timerRef)
         IN  IF c.state.timerStatus = "running" /\ c.state.currentTime > 0
               THEN setInterval(c)
               ELSE c

\* The effect without its cleanup function
Render_noCleanup(prev, w, t1, t2) ==
  IF prev.timerStatus = w.state.timerStatus /\ prev.currentTime = w.state.currentTime
    THEN w
    ELSE IF w.state.timerStatus = "running" /\ w.state.currentTime > 0
      THEN setInterval(w)
      ELSE IF w.state.currentTime = 0
        THEN LET ended == handleEndSession(clearInterval(w, w.timerRef), FALSE, t1)
             IN  IF ended.error = "exception"
                   THEN [ended EXCEPT !.error = "effectException"]
                   ELSE Render(w.state, handleSessionSwitch(ended, t2), t1, t2)
        ELSE w

\* The render that follows an event, and its effect.  prev is the state of
\* the render before; t1 and t2 are what the effect's two calls of Date.now()
\* return.
Render(prev, w, t1, t2) ==
  IF prev.timerStatus = w.state.timerStatus /\ prev.currentTime = w.state.currentTime
    THEN w
    ELSE LET c == clearInterval(w, w.timerRef)
         IN  IF c.state.timerStatus = "running" /\ c.state.currentTime > 0
               THEN setInterval(c)
               ELSE IF c.state.currentTime = 0
                 THEN LET ended == handleEndSession(clearInterval(c, c.timerRef), FALSE, t1)
                      IN  IF ended.error = "exception"
                            THEN [ended EXCEPT !.error = "effectException"]
                            ELSE Render(c.state, handleSessionSwitch(ended, t2), t1, t2)
                 ELSE c

\* the interval's callback
tick(w) == [w EXCEPT !.state.currentTime = @ - 1]

\* handleStartPause opening a session start whenever it starts or resumes
handleStartPause_alwaysOpens(w, t) ==
  IF w.state.userName = ""
    THEN [w EXCEPT !.error = "alert"]
    ELSE IF w.state.timerStatus = "running"
      THEN clearInterval([w EXCEPT !.state.timerStatus = "paused"], w.timerRef)
      ELSE startNewSession([w EXCEPT !.state.timerStatus = "running"], t)

\* handleStartPause asking for the name only when it starts
handleStartPause_pauseUnchecked(w, t) ==
  IF w.state.timerStatus = "running"
    THEN clearInterval([w EXCEPT !.state.timerStatus = "paused"], w.timerRef)
    ELSE IF w.state.userName = ""
      THEN [w EXCEPT !.error = "alert"]
      ELSE LET r == [w EXCEPT !.state.timerStatus = "running"]
           IN  IF Falsy(w.sessionStart) THEN startNewSession(r, t) ELSE r

handleStartPause(w, t) ==
  IF w.state.userName = ""
    THEN [w EXCEPT !.error = "alert"]
    ELSE IF w.state.timerStatus = "running"
      THEN clearInterval([w EXCEPT !.state.timerStatus = "paused"], w.timerRef)
      ELSE LET r == [w EXCEPT !.state.timerStatus = "running"]
           IN  IF Falsy(w.sessionStart) THEN startNewSession(r, t) ELSE r

\* handleInterrupt going back to the duration of the interrupted type
handleInterrupt_keepsType(w, t) ==
  IF w.state.timerStatus # "idle"
    THEN LET ended == handleEndSession(clearInterval(w, w.timerRef), TRUE, t)
         IN  IF ended.error = "exception" THEN ended
             ELSE [ended EXCEPT !.state.currentTime =
                                   DurationOf(w.state, w.state.currentSession),
                                !.state.timerStatus = "idle"]
    ELSE w

handleInterrupt(w, t) ==
  IF w.state.timerStatus # "idle"
    THEN LET ended == handleEndSession(clearInterval(w, w.timerRef), TRUE, t)
         IN  IF ended.error = "exception" THEN ended
             ELSE [ended EXCEPT !.state.currentTime = w.state.workDuration,
                                !.state.currentSession = "work",
                                !.state.timerStatus = "idle"]
    ELSE w

\* handleReset going back to the break duration
handleReset_breakDuration(w, t) ==
  LET c == clearInterval(w, w.timerRef)
      ended == IF w.state.timerStatus = "running" \/ w.state.timerStatus = "paused"
                 THEN handleEndSession(c, TRUE, t)
                 ELSE c
  IN  IF ended.error = "exception" THEN ended
      ELSE [ended EXCEPT !.state.currentTime = w.state.breakDuration,
                         !.state.currentSession = "work",
                         !.state.timerStatus = "idle"]

\* handleReset closing the session only when the timer is running
handleReset_runningOnly(w, t) ==
  LET c == clearInterval(w, w.timerRef)
      ended == IF w.state.timerStatus = "running"
                 THEN handleEndSession(c, TRUE, t)
                 ELSE c
  IN  IF ended.error = "exception" THEN ended
      ELSE [ended EXCEPT !.state.currentTime = w.state.workDuration,
                         !.state.currentSession = "work",
                         !.state.timerStatus = "idle"]

handleReset(w, t) ==
  LET c == clearInterval(w, w.timerRef)
      ended == IF w.state.timerStatus = "running" \/ w.state.timerStatus = "paused"
                 THEN handleEndSession(c, TRUE, t)
                 ELSE c
  IN  IF ended.error = "exception" THEN ended
      ELSE [ended EXCEPT !.state.currentTime = w.state.workDuration,
                         !.state.currentSession = "work",
                         !.state.timerStatus = "idle"]

\* handleDurationChange leaving currentTime alone
handleDurationChange_noReload(w, type, increment) ==
  LET durationChange == IF increment THEN DurationStep ELSE -DurationStep
  IN  IF type = "work"
        THEN [w EXCEPT !.state.workDuration = Max(MinDuration, w.state.workDuration + durationChange)]
        ELSE [w EXCEPT !.state.breakDuration = Max(MinDuration, w.state.breakDuration + durationChange)]

\* handleDurationChange clamping at zero
handleDurationChange_clampsAtZero(w, type, increment) ==
  LET durationChange == IF increment THEN DurationStep ELSE -DurationStep
  IN  IF type = "work"
        THEN [w EXCEPT !.state.workDuration = Max(0, w.state.workDuration + durationChange),
                       !.state.currentTime =
                          IF w.state.currentSession = "work"
                            THEN Max(0, w.state.workDuration + durationChange)
                            ELSE w.state.currentTime]
        ELSE [w EXCEPT !.state.breakDuration = Max(0, w.state.breakDuration + durationChange),
                       !.state.currentTime =
                          IF w.state.currentSession = "break"
                            THEN Max(0, w.state.breakDuration + durationChange)
                            ELSE w.state.currentTime]

\* handleDurationChange whose break branch tests for a work session
handleDurationChange_wrongSession(w, type, increment) ==
  LET durationChange == IF increment THEN DurationStep ELSE -DurationStep
  IN  IF type = "work"
        THEN [w EXCEPT !.state.workDuration = Max(MinDuration, w.state.workDuration + durationChange),
                       !.state.currentTime =
                          IF w.state.currentSession = "work"
                            THEN Max(MinDuration, w.state.workDuration + durationChange)
                            ELSE w.state.currentTime]
        ELSE [w EXCEPT !.state.breakDuration = Max(MinDuration, w.state.breakDuration + durationChange),
                       !.state.currentTime =
                          IF w.state.currentSession = "work"
                            THEN Max(MinDuration, w.state.breakDuration + durationChange)
                            ELSE w.state.currentTime]

handleDurationChange(w, type, increment) ==
  LET durationChange == IF increment THEN DurationStep ELSE -DurationStep
  IN  IF type = "work"
        THEN [w EXCEPT !.state.workDuration = Max(MinDuration, w.state.workDuration + durationChange),
                       !.state.currentTime =
                          IF w.state.currentSession = "work"
                            THEN Max(MinDuration, w.state.workDuration + durationChange)
                            ELSE w.state.currentTime]
        ELSE [w EXCEPT !.state.breakDuration = Max(MinDuration, w.state.breakDuration + durationChange),
                       !.state.currentTime =
                          IF w.state.currentSession = "break"
                            THEN Max(MinDuration, w.state.breakDuration + durationChange)
                            ELSE w.state.currentTime]

handleUserNameChange(w, value) == [w EXCEPT !.state.userName = value]

\* ---- formatTime ----------------------------------------------------------
\* A string is the sequence of its characters.
DigitChars == <<"0", "1", "2", "3", "4", "5", "6", "7", "8", "9">>

\* Number.prototype.toString() of an integer
RECURSIVE toString(_)
toString(n) ==
  IF n < 0 THEN <<"-">> \o toString(-n)
  ELSE IF n < 10 THEN <<DigitChars[n + 1]>>
  ELSE toString(n \div 10) \o <<DigitChars[(n % 10) + 1]>>

\* a % b of JavaScript for b > 0: the remainder has the sign of a
Remainder(a, b) == IF a >= 0 THEN a % b ELSE -((-a) % b)

\* String.prototype.padStart(targetLength, padString) with a one-character pad
RECURSIVE padStart(_, _, _)
padStart(str, targetLength, padString) ==
  IF Len(str) >= targetLength THEN str
  ELSE padStart(<<padString>> \o str, targetLength, padString)

\* formatTime with the minutes taken modulo 60
formatTime_wrapsMinutes(seconds) ==
  LET minutes == (seconds \div 60) % 60
      remainingSeconds == Remainder(seconds, 60)
  IN  padStart(toString(minutes), 2, "0") \o <<":">>
        \o padStart(toString(remainingSeconds), 2, "0")

formatTime(seconds) ==
  LET minutes == seconds \div 60
      remainingSeconds == Remainder(seconds, 60)
  IN  padStart(toString(minutes), 2, "0") \o <<":">>
        \o padStart(toString(remainingSeconds), 2, "0")

\* ---- the state machine --------------------------------------------------
\* The component is mounted until an exception escapes an effect.
Mounted == error # "effectException"

\* The component is followed while the stored log is shorter than MaxLog.
LogRoom == Len(StoredLogs(storage)) < MaxLog

\* What Date.now() can return next: the clock does not run backwards.
Clock == now..MaxNow

\* The event being handled: its handler, its arguments and what it found;
\* the tick that ends a countdown also records the event handled before it
NoEvent == [op |-> "", arg |-> "", increment |-> FALSE]

Event(op, arg, increment) ==
  [op |-> op, arg |-> arg, increment |-> increment, status |-> state.timerStatus,
   session |-> state.currentSession,
   mid |-> state.currentTime < DurationOf(state, state.currentSession),
   after |-> IF op = "tick" /\ state.currentTime = 1
               THEN [op |-> lastOp.op, arg |-> lastOp.arg, increment |-> lastOp.increment]
               ELSE NoEvent]

Commit(op, arg, increment, w) ==
  /\ state' = w.state
  /\ sessionStart' = w.sessionStart
  /\ timerRef' = w.timerRef
  /\ timers' = w.timers
  /\ storage' = w.storage
  /\ now' = w.now
  /\ error' = w.error
  /\ lastOp' = Event(op, arg, increment)
  /\ display' = formatTime(w.state.currentTime)

\* The stores a page load can find when only this component wrote the item
WellFormedStores == {NoItem, EmptyText, JSONstringify(<<>>)}

\* and the ones it can find when something else wrote it
MalformedStores == {GarbageText, ObjectText}

\* The state after construction: idle, a Work session loaded, no name.  The
\* component is constructed with 90 and 5 minutes; the model starts it at the
\* durations within MaxMinutes, each of which the duration buttons reach
\* from there while the timer is idle.
InitWith(stores) ==
  /\ \E wd \in Durations, bd \in Durations :
       state = [workDuration |-> wd, breakDuration |-> bd, currentTime |-> wd,
                currentSession |-> "work", timerStatus |-> "idle", userName |-> ""]
  /\ sessionStart = Null
  /\ timerRef = Null
  /\ timers = {}
  /\ storage \in stores
  /\ now = 1
  /\ error = "none"
  /\ lastOp = [op |-> "mount", arg |-> "", increment |-> FALSE, status |-> "idle", session |-> "work", mid |-> FALSE,
               after |-> NoEvent]
  /\ ticks = Null
  /\ display = formatTime(state.currentTime)

Init == InitWith(WellFormedStores)

\* The moments at which the user acts
NearEdge ==
  \/ state.timerStatus = "idle"
  \/ state.currentTime >= DurationOf(state, state.currentSession) - MaxEdge
  \/ state.currentTime <= MaxEdge

\* An event whose handling leaves the world w; t is what Date.now() returned
\* last, if the handling called it.
Handled(op, arg, increment, w, t) ==
  /\ Mounted
  /\ LogRoom
  /\ op # "tick" => NearEdge
  /\ \E handled \in {w} :
       /\ handled.now = t
       /\ Commit(op, arg, increment, handled)

Tick ==
  /\ timers # {}
  /\ \E t1 \in Clock : \E t2 \in t1..MaxNow :
       Handled("tick", "", FALSE, Render(state, tick(World), t1, t2), t2)
  /\ ticks' = IF ticks = Null THEN Null
              ELSE IF state.currentTime = 1 THEN 0 ELSE ticks + 1

StartPause ==
  /\ \E t \in Clock :
       Handled("startPause", "", FALSE, Render(state, handleStartPause(World, t), t, t), t)
  /\ ticks' = IF state.timerStatus = "idle" /\ state.userName # "" THEN 0 ELSE Null

Interrupt ==
  /\ \E t \in Clock :
       Handled("interrupt", "", FALSE, Render(state, handleInterrupt(World, t), t, t), t)
  /\ ticks' = Null

Reset ==
  /\ \E t \in Clock :
       Handled("reset", "", FALSE, Render(state, handleReset(World, t), t, t), t)
  /\ ticks' = Null

DurationChange(type, increment) ==
  /\ increment => DurationOf(state, type) + DurationStep <= 60 * MaxMinutes
  /\ Handled("durationChange", type, increment,
             Render(state, handleDurationChange(World, type, increment), now, now), now)
  /\ ticks' = Null

UserNameChange(value) ==
  /\ value # state.userName
  /\ Handled("userNameChange", value, FALSE,
             Render(state, handleUserNameChange(World, value), now, now), now)
  /\ ticks' = Null

Next ==
  \/ Tick
  \/ StartPause
  \/ Interrupt
  \/ Reset
  \/ \E type \in SessionTypes, increment \in BOOLEAN : DurationChange(type, increment)
  \/ \E value \in UserNames : UserNameChange(value)

Spec == Init /\ [][Next]_vars

\* The same component on a page whose stored item was written by something
\* else than saveSessionToLocalStorage
InitMalformed == InitWith(MalformedStores)

SpecMalformed == InitMalformed /\ [][Next]_vars

\* The browser delivers the ticks of an armed interval: weak fairness of
\* Tick, WF_vars(Tick), with ENABLED <<Tick>>_vars written out as TickEnabled
TickEnabled == timers # {} /\ Mounted /\ LogRoom

TickEnabledAsWritten == TickEnabled <=> ENABLED <<Tick>>_vars

TickFairness == []<>(~TickEnabled) \/ []<><<Tick>>_vars

SpecFair == Init /\ [][Next]_vars /\ TickFairness

\* formatTime applied to every second count a countdown of up to
\* MaxShownMinutes minutes shows, 0 included: the render that follows the
\* last tick shows it before the effect switches the session.
InitFormat ==
  /\ \E seconds \in 0..(60 * MaxShownMinutes) :
       state = [workDuration |-> 60 * MaxShownMinutes, breakDuration |-> MinDuration,
                currentTime |-> seconds, currentSession |-> "work",
                timerStatus |-> "running", userName |-> "ana"]
  /\ sessionStart = 1
  /\ timerRef = Null
  /\ timers = {}
  /\ storage = NoItem
  /\ now = 1
  /\ error = "none"
  /\ lastOp = [op |-> "tick", arg |-> "", increment |-> FALSE, status |-> "running",
               session |-> "work", mid |-> FALSE, after |-> NoEvent]
  /\ ticks = Null
  /\ display = <<>>

ShowTime ==
  /\ display = <<>>
  /\ display' = formatTime(state.currentTime)
  /\ UNCHANGED <<state, sessionStart, timerRef, timers, storage, now, error, lastOp, ticks>>

NextFormat == ShowTime

SpecFormat == InitFormat /\ [][NextFormat]_vars

\* ---- what the claims speak of -------------------------------------------
Logs == StoredLogs(storage)

\* The entry of the session that is open, closed at the time a step reads
\* (in a switch the time read last is the new session's start)
ClosingEntryAt(wasInterrupted, t) ==
  [userName |-> state.userName, sessionType |-> state.currentSession,
   startTime |-> sessionStart, endTime |-> t, interrupted |-> wasInterrupted]

\* The steps' closures: an interrupted one reads the clock once, a completed
\* one reads it again for the start of the next session
Interrupted(before, after) == after = Append(before, ClosingEntryAt(TRUE, now'))

Completed(before, after) ==
  /\ \E t \in now..now' : after = Append(before, ClosingEntryAt(FALSE, t))
  /\ sessionStart' = now'

InSession == state.timerStatus \in {"running", "paused"}

\* The step handles the event op (every step of Next records its event)
Handles(op) == lastOp'.op = op

IdleBaseline(s, wd) ==
  /\ s.timerStatus = "idle"
  /\ s.currentSession = "work"
  /\ s.currentTime = wd

\* C1: a session that is counted down by ticks alone, from the moment it was
\* opened (by start from Idle, or by the switch before it), loses one second
\* per tick; the tick that takes it to zero, the duration-th one, switches the
\* session type, reloads the new type's duration, keeps the timer running
\* with a new sessionStart and appends exactly one entry, not interrupted and
\* of the type that ended.  No earlier tick switches or logs.
C1_NaturalCompletion ==
  [][(Handles("tick") /\ ticks # Null) =>
       /\ state.timerStatus = "running"
       /\ state.currentTime = DurationOf(state, state.currentSession) - ticks
       /\ IF ticks + 1 = DurationOf(state, state.currentSession)
            THEN /\ state'.currentSession = OtherSession(state.currentSession)
                 /\ state'.currentTime = DurationOf(state, state'.currentSession)
                 /\ state'.timerStatus = "running"
                 /\ ~Falsy(sessionStart')
                 /\ timers' # {}
                 /\ Completed(Logs, StoredLogs(storage'))
            ELSE /\ state'.currentSession = state.currentSession
                 /\ state'.currentTime = state.currentTime - 1
                 /\ state'.timerStatus = "running"
                 /\ timers' # {}
                 /\ sessionStart' = sessionStart
                 /\ storage' = storage]_vars

\* A Break session opened by the switch has just been counted down to zero
\* by ticks alone, after a Work session that was
C1_Witness ==
  /\ lastOp.op = "tick"
  /\ lastOp.session = "break"
  /\ ticks = 0
  /\ state.currentSession = "work"
  /\ state.currentTime = state.workDuration
  /\ Len(Logs) = 2
  /\ Logs[1].sessionType = "work" /\ ~Logs[1].interrupted
  /\ Logs[2].sessionType = "break" /\ ~Logs[2].interrupted

\* C2: interrupt in a Running or Paused state appends exactly one entry,
\* interrupted and of the type of the session being closed, clears
\* sessionStart and leaves Idle / Work / the Work duration.
C2_InterruptClosesAndResets ==
  [][(Handles("interrupt") /\ InSession) =>
       /\ Interrupted(Logs, StoredLogs(storage'))
       /\ sessionStart' = Null
       /\ IdleBaseline(state', state.workDuration)
       /\ state'.workDuration = state.workDuration
       /\ state'.breakDuration = state.breakDuration]_vars

\* A Break session under way was interrupted
C2_Witness ==
  /\ lastOp.op = "interrupt"
  /\ lastOp.session = "break"
  /\ lastOp.status \in {"running", "paused"}
  /\ lastOp.mid
  /\ state.timerStatus = "idle"
  /\ state.currentTime = state.workDuration
  /\ Len(Logs) = 2
  /\ Logs[2].sessionType = "break" /\ Logs[2].interrupted

\* C3: sessionStart is set exactly while the timer is Running or Paused.
C3_SessionStartIffInSession == ~Falsy(sessionStart) <=> InSession

\* A second session is open and paused
C3_Witness ==
  /\ state.timerStatus = "paused"
  /\ ~Falsy(sessionStart)
  /\ Len(Logs) >= 1

\* C4: start/pause with an empty userName raises the alert and changes
\* nothing, whatever the status.
C4_EmptyNameChangesNothing ==
  [][(Handles("startPause") /\ state.userName = "") =>
       /\ error' = "alert"
       /\ UNCHANGED <<state, sessionStart, storage, timers, timerRef>>]_vars

\* The name was cleared during a countdown and start/pause was pressed
C4_Witness ==
  /\ lastOp.op = "startPause"
  /\ lastOp.status = "running"
  /\ error = "alert"
  /\ state.timerStatus = "running"
  /\ state.userName = ""

\* C5: the stored log is append-only.  A step leaves it as it is or adds one
\* entry at its end, the entry of the session being closed with its fields
\* as built; it grows only in a closure (the tick to zero, interrupt, reset)
\* and no other handler writes the item.
C5_AppendOnlyLog ==
  [][/\ \/ StoredLogs(storage') = Logs
        \/ /\ Handles("tick")
           /\ state.currentTime = 1
           /\ Completed(Logs, StoredLogs(storage'))
        \/ /\ Handles("interrupt") \/ Handles("reset")
           /\ Interrupted(Logs, StoredLogs(storage'))
     /\ (Handles("startPause") \/ Handles("userNameChange") \/ Handles("durationChange"))
          => storage' = storage]_vars

\* Two closures in a row were stored, in their order
C5_Witness ==
  /\ Len(Logs) = 2
  /\ Logs[1].endTime <= Logs[2].startTime
  /\ Logs[1].interrupted # Logs[2].interrupted

\* C6: with a stored item that does not parse to an array, a closure stores
\* exactly the one new entry, raises nothing and completes.
C6_MalformedTreatedAsEmpty ==
  [][((Handles("interrupt") \/ Handles("reset")
         \/ (Handles("tick") /\ state.currentTime = 1))
        /\ InSession /\ storage \in MalformedStores) =>
       /\ IF Handles("tick") THEN Completed(<<>>, StoredLogs(storage'))
                             ELSE Interrupted(<<>>, StoredLogs(storage'))
       /\ error' = "none"
       /\ ~Handles("tick") => sessionStart' = Null /\ IdleBaseline(state', state.workDuration)
       /\ Handles("tick") => ~Falsy(sessionStart') /\ state'.currentSession # state.currentSession]_vars

\* C7: configure sets the duration of its kind to max(60, old +/- 60);
\* remainingSeconds becomes that duration when the kind is the current
\* session type and is unchanged otherwise, in every status.
C7_ConfigureRemaining ==
  [][Handles("durationChange") =>
         LET type == lastOp'.arg
             updated == Max(MinDuration, DurationOf(state, type)
                              + (IF lastOp'.increment THEN DurationStep ELSE -DurationStep))
         IN  /\ DurationOf(state', type) = updated
             /\ state'.currentTime = IF type = state.currentSession
                                       THEN updated ELSE state.currentTime]_vars

\* The Work duration was changed while a Work countdown was under way
C7_Witness ==
  /\ lastOp.op = "durationChange"
  /\ lastOp.arg = "work"
  /\ lastOp.increment
  /\ lastOp.session = "work"
  /\ lastOp.status = "running"
  /\ lastOp.mid
  /\ state.currentTime = state.workDuration
  /\ state.timerStatus = "running"

\* C8: reset and interrupt in an Idle state change nothing and log nothing.
C8_IdleResetInterruptNoOp ==
  [][((Handles("reset") \/ Handles("interrupt")) /\ state.timerStatus = "idle") =>
       /\ error' = "none"
       /\ UNCHANGED <<state, sessionStart, storage, timers, timerRef>>]_vars

\* Reset was pressed in an Idle state whose Work duration had been edited
\* after an earlier session
C8_Witness ==
  /\ lastOp.op = "reset"
  /\ lastOp.status = "idle"
  /\ state.timerStatus = "idle"
  /\ Len(Logs) >= 1
  /\ state.workDuration # state.breakDuration

\* C9: in every state reset and interrupt have the same effect: the same
\* component state, sessionStart, stored log and interval.
C9_ResetEqualsInterrupt ==
  \A t \in Clock :
    Render(state, handleReset(World, t), t, t) = Render(state, handleInterrupt(World, t), t, t)

\* Reset has closed a paused Break session
C9_Witness ==
  /\ lastOp.op = "reset"
  /\ lastOp.status = "paused"
  /\ lastOp.session = "break"
  /\ state.timerStatus = "idle"
  /\ Len(Logs) >= 1
  /\ Logs[Len(Logs)].interrupted /\ Logs[Len(Logs)].sessionType = "break"

\* C10: at most one interval is armed, it is the one timerRef holds, and it
\* is armed only while the timer is Running.
C10_OneCountdownSource ==
  /\ Cardinality(timers) <= 1
  /\ timers # {} => timers = {timerRef} /\ state.timerStatus = "running"

\* A countdown under way was paused, and its interval is gone
C10_Witness ==
  /\ lastOp.op = "startPause"
  /\ lastOp.status = "running"
  /\ lastOp.mid
  /\ state.timerStatus = "paused"
  /\ timerRef # Null
  /\ timers = {}

\* C11: both durations are at least 60 and multiples of 60 in every state; a
\* configure step sets the duration of its kind to max(60, old +/- 60) and
\* leaves the other one; no other step changes a duration.
ValidDuration(d) == d >= MinDuration /\ d % 60 = 0

C11_DurationsClampedAndFramed ==
  [][/\ ValidDuration(state.workDuration) /\ ValidDuration(state.breakDuration)
     /\ ValidDuration(state'.workDuration) /\ ValidDuration(state'.breakDuration)
     /\ IF Handles("durationChange")
          THEN LET type == lastOp'.arg
                   delta == IF lastOp'.increment THEN DurationStep ELSE -DurationStep
               IN  /\ DurationOf(state', type) = Max(MinDuration, DurationOf(state, type) + delta)
                   /\ DurationOf(state', OtherSession(type)) =
                        DurationOf(state, OtherSession(type))
          ELSE /\ state'.workDuration = state.workDuration
               /\ state'.breakDuration = state.breakDuration]_vars

\* The Break duration was taken down to the floor during a session, and the
\* longer Work duration is as it was
C11_Witness ==
  /\ lastOp.op = "durationChange"
  /\ lastOp.arg = "break"
  /\ ~lastOp.increment
  /\ lastOp.status = "running"
  /\ state.breakDuration = MinDuration
  /\ state.workDuration > MinDuration

\* C12: with a name, start/pause takes Running to Paused and Paused back to
\* Running and leaves the session type, the remaining seconds, the open
\* sessionStart, the durations and the stored log as they are; no tick is
\* delivered while Paused, and a step that stays Paused changes the remaining
\* seconds only by a duration change.
C12_PauseResumeFrame ==
  [][/\ (Handles("startPause") /\ state.userName # "" /\ InSession) =>
          /\ state'.timerStatus = IF state.timerStatus = "running" THEN "paused" ELSE "running"
          /\ state' = [state EXCEPT !.timerStatus = state'.timerStatus]
          /\ sessionStart' = sessionStart
          /\ storage' = storage
          /\ (state'.timerStatus = "running") <=> (timers' # {})
     /\ state.timerStatus = "paused" =>
          /\ ~Handles("tick")
          /\ (state'.timerStatus = "paused" /\ ~Handles("durationChange"))
               => state'.currentTime = state.currentTime]_vars

\* A countdown paused under way has been resumed where it was, in the
\* session that was open
C12_Witness ==
  /\ lastOp.op = "startPause"
  /\ lastOp.status = "paused"
  /\ lastOp.mid
  /\ state.timerStatus = "running"
  /\ state.currentTime < DurationOf(state, state.currentSession)
  /\ ~Falsy(sessionStart)
  /\ timers # {}

\* C15: in every Idle state the session type is Work and the remaining
\* seconds are the current Work duration.
C15_IdleBaseline ==
  state.timerStatus = "idle" => IdleBaseline(state, state.workDuration)

\* The Work duration was changed while Idle, after an earlier session
C15_Witness ==
  /\ lastOp.op = "durationChange"
  /\ lastOp.arg = "work"
  /\ lastOp.status = "idle"
  /\ state.timerStatus = "idle"
  /\ state.workDuration # state.breakDuration
  /\ Len(Logs) >= 1

\* C16: the remaining seconds are never below 0 and never above the
\* configured duration of the current session type.
C16_RemainingInRange ==
  /\ 0 <= state.currentTime
  /\ state.currentTime <= DurationOf(state, state.currentSession)

\* A countdown has switched into a session shorter than the one that ended
C16_Witness ==
  /\ lastOp.op = "tick"
  /\ lastOp.session = "work"
  /\ state.currentSession = "break"
  /\ state.breakDuration < state.workDuration
  /\ state.currentTime = state.breakDuration

C18_SessionsOrderedInTime ==
  /\ \A i \in 1..Len(Logs) : Logs[i].startTime <= Logs[i].endTime
  /\ \A i \in 1..(Len(Logs) - 1) : Logs[i].endTime <= Logs[i + 1].startTime
  /\ (Len(Logs) >= 1 /\ ~Falsy(sessionStart)) => Logs[Len(Logs)].endTime <= sessionStart

\* A session that took time was completed and the next one, opened by the
\* switch, was closed too
C18_Witness ==
  /\ Len(Logs) >= 2
  /\ ~Logs[1].interrupted
  /\ Logs[1].startTime < Logs[1].endTime
  /\ Logs[1].endTime <= Logs[2].startTime

\* C20: every stored entry has a non-empty userName.
C20_EntriesHaveUserName ==
  \A i \in 1..Len(Logs) : Logs[i].userName # ""

\* C14: when a countdown ends, the new session is loaded with the duration
\* configured for its type at the moment of the switch, whatever that duration
\* was when the session that ended was opened.
C14_SwitchLoadsCurrentDuration ==
  [][(Handles("tick") /\ state.currentTime = 1) =>
         LET next == OtherSession(state.currentSession)
         IN  /\ state'.currentSession = next
             /\ state'.currentTime = DurationOf(state, next)
             /\ state'.currentTime = DurationOf(state', next)]_vars

\* A countdown ended right after the duration of the other type was raised
\* by a step during it: the new session starts with the raised value
C14_Witness ==
  /\ lastOp.op = "tick"
  /\ lastOp.session # state.currentSession
  /\ lastOp.after.op = "durationChange"
  /\ lastOp.after.arg = state.currentSession
  /\ lastOp.after.increment
  /\ state.currentTime = DurationOf(state, state.currentSession)
  /\ state.currentTime - DurationStep >= MinDuration
  /\ state.timerStatus = "running"

\* The number a string of decimal digits denotes
RECURSIVE NumberOf(_)
NumberOf(chars) ==
  IF chars = <<>> THEN 0
  ELSE LET last == chars[Len(chars)]
           digit == CHOOSE d \in 0..9 : DigitChars[d + 1] = last
       IN  10 * NumberOf(SubSeq(chars, 1, Len(chars) - 1)) + digit

IsDigits(chars) == \A i \in 1..Len(chars) : \E d \in 1..10 : chars[i] = DigitChars[d]

\* shown is seconds as minutes:seconds, the minutes with at least two digits
\* and no more than it takes, the seconds with two
ShownAs(seconds, shown) ==
  /\ Len(shown) >= 5
  /\ LET colon == Len(shown) - 2
         mm == SubSeq(shown, 1, colon - 1)
         ss == SubSeq(shown, colon + 1, Len(shown))
     IN  /\ shown[colon] = ":"
         /\ IsDigits(mm) /\ IsDigits(ss)
         /\ NumberOf(mm) = seconds \div 60
         /\ NumberOf(ss) = seconds % 60
         /\ Len(mm) > 2 => mm[1] # "0"

\* C13: formatTime renders s >= 0 as floor(s/60) in decimal with at least two
\* digits, a colon and s mod 60 with two digits, the minutes not wrapped at
\* 60: 0 is "00:00", 65 is "01:05", 6000 is "100:00".
C13_FormatTime ==
  display # <<>> =>
    /\ ShownAs(state.currentTime, display)
    /\ state.currentTime = 0 => display = <<"0", "0", ":", "0", "0">>
    /\ state.currentTime = 65 => display = <<"0", "1", ":", "0", "5">>
    /\ state.currentTime = 6000 => display = <<"1", "0", "0", ":", "0", "0">>

\* 6000 seconds are shown, with three digits of minutes
C13_Witness ==
  /\ state.currentTime = 6000
  /\ display = <<"1", "0", "0", ":", "0", "0">>

\* The event handled last paused the countdown, closed the session by hand or
\* changed the duration of the session type that was counting down
Disturbed ==
  \/ lastOp.op = "startPause" /\ lastOp.status = "running" /\ state.timerStatus = "paused"
  \/ lastOp.op \in {"interrupt", "reset"}
  \/ lastOp.op = "durationChange" /\ lastOp.arg = lastOp.session

\* A session of the given type is counting down with n entries logged
CountingDown(type, n) ==
  /\ state.timerStatus = "running"
  /\ state.currentSession = type
  /\ Len(Logs) = n
  /\ LogRoom

\* The session of the given type that was counting down with n entries logged
\* has been closed by the countdown, and the other type has been switched to
ClosedBySwitch(type, n) ==
  /\ Len(Logs) = n + 1
  /\ Logs[n + 1].sessionType = type
  /\ ~Logs[n + 1].interrupted
  /\ state.currentSession = OtherSession(type)
  /\ state.timerStatus = "running"

\* C19: with the ticks of an armed interval delivered, a Running session is
\* eventually closed by a non-interrupted entry of its type and the session
\* type switches, unless it is paused, interrupted, reset or its duration is
\* changed; this holds of every session in turn, for as long as the log is
\* followed (MaxLog entries).
C19_CountdownCompletes ==
  \A type \in SessionTypes : \A n \in 0..(MaxLog - 1) :
    CountingDown(type, n) ~> (Disturbed \/ ClosedBySwitch(type, n))

\* Two sessions in a row were closed by their countdowns, with an event that
\* does not disturb a countdown handled on the way
C19_Witness ==
  /\ lastOp.op = "tick"
  /\ ticks = Null
  /\ ~Disturbed
  /\ Len(Logs) = 2
  /\ ClosedBySwitch("break", 1)
  /\ Logs[1].sessionType = "work" /\ ~Logs[1].interrupted

====
